---- MODULE Spec2Model ----
(***************************************************************************)
(* A model of src/src/canvasrenderer.js (img.js): CanvasRenderer.render,   *)
(* the per-layer pipelines collected by async.map, getLayerData,           *)
(* CanvasRenderer.composite / merge with its native and manual blend runs, *)
(* and the ping-pong filter loop of CanvasRenderer.processImage.           *)
(*                                                                         *)
(* Specifications.                                                         *)
(*  - Spec: one render with its compositing (composite, merge) in detail.  *)
(*  - SpecFilter: one call of processImage.                                *)
(*  - SpecGradient: one call of generateGradient (linear gradients).       *)
(*  - SpecRect: one call of rectIntersect or of calcLayerRect.             *)
(*  - SpecNested: render with the stages of every pipeline (load,          *)
(*    processMask, processImage), the renders of masks and nested          *)
(*    Canvases, and the images that load or fail to load.                  *)
(*                                                                         *)
(* Conventions.                                                            *)
(*  - JavaScript runs one handler to completion, so a handler is one       *)
(*    action: Render is the call of render(); PipelineDone(p) is the       *)
(*    completion of the pipeline of one layer (an image's onload), and the *)
(*    completion of the last pipeline carries the whole of getLayerData,   *)
(*    composite and merge, which the code runs synchronously inside it.    *)
(*  - Sequences are 1-based: position p of a sequence is JavaScript index  *)
(*    p-1. Events and operations name layers by their JavaScript index.    *)
(*  - A pixel buffer is the sequence of the operations that produced its   *)
(*    content; the blank (transparent) buffer is the empty sequence.       *)
(*  - Coordinates that the code halves ((W - w) / 2) are kept in half      *)
(*    pixels; calcLayerRect rounds them back to whole pixels.              *)
(*  - The JavaScript values true, false and undefined of the capability    *)
(*    lookup are the strings "true", "false" and "undefined".              *)
(*  - A call that can throw yields a record with the fields threw and      *)
(*    error. The file reads the variable util (lines 269, 293) without     *)
(*    declaring it, so transformRect throws a ReferenceError on every      *)
(*    call, and with it calcLayerRect and every manual run, and            *)
(*    transformLayer throws one for every layer that is rotated.           *)
(***************************************************************************)
EXTENDS Integers, Sequences, FiniteSets, TLC

\* ------------------------------------------------------------------ bounds
MaxLayers == 3
CanvasW == 4
CanvasH == 4
ImgW == 2
ImgH == 2
MaxFilters == 3
MaxRotation == 450
MaxCoord == 2
\* Nested renders: the layers of the top Canvas, the renders the caller
\* makes, the renders on the JavaScript stack that overflow it, the nesting
\* up to which a render still receives its images, and the recursion limit
\* section 9 of the specification asks for.
MaxTopLayers == 2
MaxRenders == 2
StackLimit == 6
MaxLevel == 3
RecursionLimit == 2

\* The endpoints of a gradient are kept in units of 1/90 pixel: the formulas
\* of lines 151-171 divide by 45 after halving, or by 90 (135 - 45).
GradientUnit == 90

VARIABLES
    layers,              \* iCanvas.layers: the layers of the Canvas being rendered
    hasCreateImageData,  \* whether the 2D context offers createImageData (line 16)
    pc,                  \* "idle" | "loading" | "done" | "failed" | "filter" | "filtered"
    layerImages,         \* async.map's results array: position -> raster or NoRaster
    arrival,             \* history: the layers (JavaScript index) in completion order
    layerData,           \* the placements getLayerData built
    renderPipe,          \* merge's renderPipe array, as built
    canvas,              \* content of merge's / composite's html canvas
    ops,                 \* history: the events of compositing, in order
    runLog,              \* history: each run with the buffer it received and left
    cbLog,               \* history: the values handed to render's callback
    err,                 \* "none", or the error that was thrown
    filters,             \* processImage: the filter chain
    pixels,              \* processImage: content of the layer's canvas
    calls,               \* processImage: history of the filter calls
    allocs,              \* processImage: number of ImageData buffers obtained
    gradient,            \* generateGradient: width, height and data.rotation
    endpoints,           \* generateGradient: what createLinearGradient was given
    rectA,               \* rectIntersect: the argument r1
    rectB,               \* rectIntersect: the argument r2
    rectOut,             \* rectIntersect: the rectangle returned
    rectLayer,           \* calcLayerRect: the placement (layer) given
    layerRect,           \* calcLayerRect: the rectangle returned
    scene,               \* nested render: the layers of every Canvas object
    nest                 \* nested render: the heap, the renders in progress, the
                         \* loads waiting, what was delivered and thrown

vars == <<layers, hasCreateImageData, pc, layerImages, arrival, layerData, renderPipe,
          canvas, ops, runLog, cbLog, err, filters, pixels, calls, allocs,
          gradient, endpoints, rectA, rectB, rectOut, rectLayer, layerRect,
          scene, nest>>

renderVars == <<layers, layerImages, arrival, layerData, renderPipe, canvas, ops, runLog,
                cbLog, err>>
filterVars == <<filters, pixels, calls, allocs>>
gradientVars == <<gradient, endpoints>>
rectVars == <<rectA, rectB, rectOut, rectLayer, layerRect>>
nestedVars == <<scene, nest>>

\* ------------------------------------------------------- external tables
Undefined == "undefined"

\* blend.getNativeModes(): blendmode name -> does the backend blend it natively.
\* A name outside the table looks up as undefined.
nativeBlendModes(mode) ==
    CASE mode = "source-over" -> "true"
      [] mode = "multiply"    -> "true"
      [] mode = "hue"         -> "false"
      [] mode = "divide"      -> "false"
      [] OTHER                -> Undefined

\* The manual blend registry: blend[name] is a function for these names.
BlendRegistry == {"source-over", "multiply", "hue"}

Modes == {"source-over", "multiply", "hue", "divide", "foo"}

iCanvas == [width |-> CanvasW, height |-> CanvasH]

\* The layers a Canvas is made of: every blendmode on the canvas (tx = 0), the
\* manual blendmodes also moved wholly off the canvas (tx = width; only the
\* manual path looks at the rectangle), one translucent layer, and one layer
\* rotated by a quarter turn. rot is in degrees; no layer is scaled or
\* flipped (sx = sy = 1, flip_h and flip_v false).
Unscaled(ls) ==
    {[blendmode |-> l.blendmode, tx |-> l.tx, ty |-> l.ty, opacity |-> l.opacity,
      rot |-> l.rot, sx |-> 1, sy |-> 1, flip_h |-> FALSE, flip_v |-> FALSE] :
        l \in ls}

LayerChoices ==
    Unscaled(
        [blendmode : Modes, tx : {0}, ty : {0}, opacity : {100}, rot : {0}]
        \cup [blendmode : {"hue", "divide"}, tx : {CanvasW}, ty : {0},
              opacity : {100}, rot : {0}]
        \cup [blendmode : {"source-over"}, tx : {0}, ty : {0}, opacity : {50},
              rot : {0}]
        \cup [blendmode : {"source-over"}, tx : {0}, ty : {0}, opacity : {100},
              rot : {90}])

\* The sequences over S of length 0..n.
SeqsUpTo(S, n) == UNION {[1..k -> S] : k \in 0..n}

\* ---------------------------------------------------------------- rasters
NoRaster == [src |-> -1, width |-> 0, height |-> 0]

\* The html canvas the pipeline of the layer at position p delivers (loadFile
\* sizes it to the source image; src identifies the pipeline that made it).
PipelineRaster(p) == [src |-> p - 1, width |-> ImgW, height |-> ImgH]

\* ---------------------------------------------------- placements (489-507)
\* getLayerData: the placement of position p takes its fields from
\* iCanvas.layers[p] and its raster from layerImages[p]. x and y centre the
\* raster on the canvas, in half pixels. index is the position in layerData
\* as a JavaScript index, kept to name the placement in the histories.
Placement(layer, layerImg, p) ==
    [index     |-> p - 1,
     img       |-> layerImg,
     x         |-> iCanvas.width - layerImg.width,
     y         |-> iCanvas.height - layerImg.height,
     opacity   |-> layer.opacity,
     blendmode |-> layer.blendmode,
     tx        |-> layer.tx,
     ty        |-> layer.ty,
     sx        |-> layer.sx,
     sy        |-> layer.sy,
     rot       |-> layer.rot,
     flip_h    |-> layer.flip_h,
     flip_v    |-> layer.flip_v]

getLayerData(canvasLayers, images) ==
    [p \in 1..Len(images) |-> Placement(canvasLayers[p], images[p], p)]

\* ------------------------------------------------------ geometry (283-347)
Max(a, b) == IF a > b THEN a ELSE b
Min(a, b) == IF a < b THEN a ELSE b

NoRect == [x |-> 0, y |-> 0, width |-> 0, height |-> 0]

\* What a call that may throw leaves: the rectangle returned, or the error.
Returned(rect) == [threw |-> FALSE, error |-> "none", rect |-> rect]
Thrown(error) == [threw |-> TRUE, error |-> error, rect |-> NoRect]

\* transformRect. Line 293, t = util.transform(), reads the variable util,
\* which the file never declares (it requires async, ./blend and ./process
\* only, lines 3-5): the read throws a ReferenceError before any corner is
\* transformed, whatever the layer is.
transformRect(layer) == Thrown("ReferenceError")

\* The rectangle from its corner (x, y) and the smaller right and bottom.
ClippedRect(x, y, right, bottom) ==
    [x |-> x, y |-> y, width |-> Max(right - x, 0), height |-> Max(bottom - y, 0)]

\* rectIntersect taking the origin of r1 for x and y.
rectIntersectFirstOrigin(r1, r2) ==
    ClippedRect(r1.x, r1.y,
                Min(r1.x + r1.width, r2.x + r2.width),
                Min(r1.y + r1.height, r2.y + r2.height))

\* Lines 325-336.
rectIntersect(r1, r2) ==
    ClippedRect(Max(r1.x, r2.x), Max(r1.y, r2.y),
                Min(r1.x + r1.width, r2.x + r2.width),
                Min(r1.y + r1.height, r2.y + r2.height))

\* Math.round and Math.ceil of a value given in half pixels.
RoundHalf(v) == (v + 1) \div 2
CeilHalf(v) == (v + 1) \div 2

\* Lines 343-346: round the origin, round the size up.
RoundRect(rect) ==
    [x      |-> RoundHalf(rect.x),
     y      |-> RoundHalf(rect.y),
     width  |-> CeilHalf(rect.width),
     height |-> CeilHalf(rect.height)]

\* The canvas as a rectangle (line 342), in half pixels.
CanvasRect ==
    [x |-> 0, y |-> 0, width |-> 2 * iCanvas.width, height |-> 2 * iCanvas.height]

\* calcLayerRect (340-347): a throw of transformRect (line 341) leaves the
\* function; otherwise the bounds are cut to the canvas and rounded.
calcLayerRect(layer) ==
    IF transformRect(layer).threw THEN transformRect(layer)
    ELSE Returned(RoundRect(rectIntersect(transformRect(layer).rect, CanvasRect)))

\* ------------------------------------------- transformLayer (257-279)
\* transformLayer returns nothing. For a layer that is rotated (rot !== 0)
\* line 269 reads the variable util, which the file never declares: the read
\* throws a ReferenceError before the context is rotated. Translating,
\* scaling and flipping the context throw nothing.
transformLayer(layer) ==
    IF layer.rot # 0 THEN Thrown("ReferenceError") ELSE Returned(NoRect)

\* --------------------------------------------------- backend operations
\* ctx.drawImage(layer.img, layer.x, layer.y) under transformLayer, with
\* globalAlpha = opacity and globalCompositeOperation = gco.
DrawOp(via, layer, gco) ==
    [via |-> via, layer |-> layer.index, img |-> layer.img.src,
     opacity |-> layer.opacity, tx |-> layer.tx, ty |-> layer.ty,
     rot |-> layer.rot, gco |-> gco, rect |-> NoRect]

\* blend[layer.blendmode](baseData, outData, width, height, layerOptions)
BlendOp(layer, rect) ==
    [via |-> "mergeManualBlend", layer |-> layer.index, img |-> layer.img.src,
     opacity |-> layer.opacity, tx |-> layer.tx, ty |-> layer.ty,
     rot |-> layer.rot, gco |-> layer.blendmode, rect |-> rect]

Event(ev, index) == [ev |-> ev, layer |-> index]

Blank == << >>

\* createImageData (15-21): a blank buffer, or without ctx.createImageData a
\* copy of the canvas read by getImageData.
createImageData(hasCreate, content) == IF hasCreate THEN Blank ELSE content

\* ------------------------------------------------ single layer (398-413)
\* The new canvas with the layer drawn on it; a throw of transformLayer
\* (line 406) leaves the function before drawImage, and no canvas is returned.
singleLayerWithOpacity(layer) ==
    IF transformLayer(layer).threw
    THEN [threw |-> TRUE, error |-> transformLayer(layer).error, canvas |-> Blank]
    ELSE [threw |-> FALSE, error |-> "none",
          canvas |-> << DrawOp("singleLayerWithOpacity", layer, "source-over") >>]

\* ------------------------------------------------- native run (417-436)
\* One iteration of the loop (421-432): a throw of transformLayer (line 424)
\* leaves the loop before drawImage; what was drawn before stays on the
\* canvas.
NativeStep(layer, st) ==
    IF transformLayer(layer).threw
    THEN [st EXCEPT !.threw = TRUE, !.error = transformLayer(layer).error]
    ELSE [st EXCEPT !.canvas = Append(@, DrawOp("mergeNativeBlend", layer,
                                                layer.blendmode)),
                    !.events = Append(@, Event("native", layer.index))]

\* The loop (420-433): after[i] is the state after the placements 1..i.
NativeLoop(layerList, st) ==
    LET after[i \in 0..Len(layerList)] ==
            IF i = 0 THEN st
            ELSE IF after[i - 1].threw THEN after[i - 1]
            ELSE NativeStep(layerList[i], after[i - 1])
    IN after[Len(layerList)]

mergeNativeBlend(layerList, content) ==
    NativeLoop(layerList,
        [canvas |-> content, events |-> << >>, threw |-> FALSE, error |-> "none"])

\* ------------------------------------------------- manual run (366-394)
BlendDefined(mode) == mode \in BlendRegistry

\* if (i > 0) swap baseData and outData (378-382); i is the 1-based position.
SwapBuffers(i, st) ==
    IF i > 1 THEN [st EXCEPT !.baseData = st.outData, !.outData = st.baseData]
    ELSE st

\* Lines 378-388 for a placement of non-zero area: swap, look the blend
\* function up, blend. sw is the state after the swap. A blend function
\* writes the whole of outData from baseData and the layer.
BlendInto(layer, rect, sw) ==
    IF ~BlendDefined(layer.blendmode)
    THEN [sw EXCEPT !.threw = TRUE,
                    !.error = "NoSuchBlendMode",
                    !.events = Append(@, Event("throw", layer.index))]
    ELSE [sw EXCEPT !.outData = Append(sw.baseData, BlendOp(layer, rect)),
                    !.events = Append(@, Event("blend", layer.index))]

\* Line 377: a placement whose rectangle has no area is passed over.
BlendOrSkip(layer, i, st, rect) ==
    IF rect.width > 0 /\ rect.height > 0
    THEN BlendInto(layer, rect, SwapBuffers(i, st))
    ELSE [st EXCEPT !.events = Append(@, Event("skip", layer.index))]

\* One iteration of the loop of mergeManualBlend (375-389), for the placement
\* at position i. st holds baseData and outData (contents), the events so far
\* and whether the loop threw. A throw of calcLayerRect (line 376) leaves the
\* loop before the test of the area and before the lookup of the blend
\* function.
ManualStep(layer, i, st) ==
    IF calcLayerRect(layer).threw
    THEN [st EXCEPT !.threw = TRUE, !.error = calcLayerRect(layer).error]
    ELSE BlendOrSkip(layer, i, st, calcLayerRect(layer).rect)

\* The loop (374-390): after[i] is the state after the placements 1..i; a
\* throw leaves the loop.
ManualLoop(layerList, st) ==
    LET after[i \in 0..Len(layerList)] ==
            IF i = 0 THEN st
            ELSE IF after[i - 1].threw THEN after[i - 1]
            ELSE ManualStep(layerList[i], i, after[i - 1])
    IN after[Len(layerList)]

\* mergeManualBlend: putImageData(outData) unless the loop threw, in which
\* case the canvas keeps its content.
ManualOutcome(content, st) ==
    [canvas |-> IF st.threw THEN content ELSE st.outData,
     events |-> st.events,
     threw  |-> st.threw,
     error  |-> st.error]

mergeManualBlend(layerList, content, hasCreate) ==
    ManualOutcome(content,
        ManualLoop(layerList,
            [baseData |-> content,
             outData  |-> createImageData(hasCreate, content),
             events   |-> << >>,
             threw    |-> FALSE,
             error    |-> "none"]))

\* -------------------------------------------------------- merge (439-472)
SeedStep == [fn |-> "seed", list |-> << >>]

RunStep(useNative, currentList) ==
    [fn   |-> IF useNative = "true" THEN "mergeNativeBlend" ELSE "mergeManualBlend",
     list |-> currentList]

\* pushList (447-452): renderPipe.unshift(fn(iCanvas, currentList)), unless
\* useNative is undefined.
pushList(st) ==
    IF st.useNative # Undefined
    THEN [st EXCEPT !.renderPipe = <<RunStep(st.useNative, st.currentList)>> \o @]
    ELSE st

\* Line 458: useNative === undefined || useNative !== nativeBlendModes[mode]
NeedNewList(useNative, capable) == useNative = Undefined \/ useNative # capable

\* Lines 458-461: a change of capability closes the current list.
StartList(st, capable) ==
    IF NeedNewList(st.useNative, capable)
    THEN [pushList(st) EXCEPT !.currentList = << >>]
    ELSE st

\* Lines 462-463.
AddLayer(st, layer, capable) ==
    [st EXCEPT !.currentList = Append(@, layer), !.useNative = capable]

\* Lines 464-466: the last placement closes its list.
CloseLast(st, isLast) == IF isLast THEN pushList(st) ELSE st

\* One iteration of the loop of merge (455-466); st holds renderPipe,
\* useNative and currentList.
MergeStep(layer, isLast, st) ==
    CloseLast(AddLayer(StartList(st, nativeBlendModes(layer.blendmode)), layer,
                       nativeBlendModes(layer.blendmode)), isLast)

\* The loop of merge (454-467) from position i on.
RECURSIVE MergeLoop(_, _, _)
MergeLoop(placements, i, st) ==
    IF i > Len(placements) THEN st
    ELSE MergeLoop(placements, i + 1,
            MergeStep(placements[i], i = Len(placements), st))

BuildPipe(placements) ==
    MergeLoop(placements, 2,
        [renderPipe |-> <<SeedStep>>, useNative |-> Undefined,
         currentList |-> << >>]).renderPipe

\* One function of the pipe applied to the canvas it is handed.
ApplyStep(step, content, hasCreate) ==
    CASE step.fn = "seed" ->
            [canvas |-> content, events |-> << >>, threw |-> FALSE,
             error |-> "none"]
      [] step.fn = "mergeNativeBlend" -> mergeNativeBlend(step.list, content)
      [] step.fn = "mergeManualBlend" -> mergeManualBlend(step.list, content, hasCreate)

\* async.compose.apply(null, renderPipe)(null, done): the functions run from
\* the last element of the array to the first, each on what the one before
\* left; a throw ends the chain. k is the next element to run.
\* The state of the chain after step has left r on the canvas st.canvas.
PipeAfter(step, st, r) ==
    [canvas |-> r.canvas,
     events |-> st.events \o r.events,
     runLog |-> IF step.fn = "seed" THEN st.runLog
                ELSE Append(st.runLog,
                        [fn |-> step.fn, list |-> step.list,
                         input |-> st.canvas, output |-> r.canvas,
                         threw |-> r.threw]),
     threw  |-> r.threw,
     error  |-> r.error]

RECURSIVE RunPipe(_, _, _, _)
RunPipe(pipe, k, st, hasCreate) ==
    IF k = 0 \/ st.threw THEN st
    ELSE RunPipe(pipe, k - 1,
            PipeAfter(pipe[k], st, ApplyStep(pipe[k], st.canvas, hasCreate)),
            hasCreate)

NullImage == [kind |-> "null", content |-> << >>]
CanvasImage(content) == [kind |-> "canvas", content |-> content]

\* Lines 469-471: the function given to the composed pipe calls
\* callback(canvas); a throw in the pipe never reaches it.
MergeOutcome(pipe, r) ==
    IF r.threw
    THEN [pc |-> "failed", canvas |-> r.canvas, renderPipe |-> pipe,
          ops |-> r.events, runLog |-> r.runLog, cbLog |-> << >>,
          err |-> r.error]
    ELSE [pc |-> "done", canvas |-> r.canvas, renderPipe |-> pipe,
          ops |-> Append(r.events, Event("callback", -1)),
          runLog |-> r.runLog, cbLog |-> <<CanvasImage(r.canvas)>>,
          err |-> "none"]

\* Lines 441-445 and 469: the canvas starts as the drawing of placement 0,
\* and the whole pipe runs on it.
RunMerge(pipe, seed, hasCreate) ==
    MergeOutcome(pipe,
        RunPipe(pipe, Len(pipe),
            [canvas |-> seed, events |-> <<Event("seed", 0)>>,
             runLog |-> << >>, threw |-> FALSE, error |-> "none"], hasCreate))

\* A throw of singleLayerWithOpacity (line 441 in merge, 480 in composite):
\* nothing is drawn, no pipe is built and the callback is not called.
Uncaught(error) ==
    [pc |-> "failed", canvas |-> Blank, renderPipe |-> << >>, ops |-> << >>,
     runLog |-> << >>, cbLog |-> << >>, err |-> error]

\* merge from line 441 on, seed being what singleLayerWithOpacity left for
\* layerData[0].
MergeFrom(placements, seed, hasCreate) ==
    IF seed.threw THEN Uncaught(seed.error)
    ELSE RunMerge(BuildPipe(placements), seed.canvas, hasCreate)

\* What one call of merge leaves: the final pc, the canvas, the pipe, the
\* histories, what the callback received and the error thrown.
merge(placements, hasCreate) ==
    MergeFrom(placements, singleLayerWithOpacity(placements[1]), hasCreate)

\* composite handing an empty canvas, not null, to the callback.
compositeEmptyCanvas ==
    [pc |-> "done", canvas |-> Blank, renderPipe |-> << >>,
     ops |-> <<Event("callback", -1)>>, runLog |-> << >>,
     cbLog |-> <<[kind |-> "canvas", content |-> Blank]>>, err |-> "none"]

\* composite (475-478): callback(null)
compositeEmpty ==
    [pc |-> "done", canvas |-> Blank, renderPipe |-> << >>,
     ops |-> <<Event("callback", -1)>>, runLog |-> << >>,
     cbLog |-> <<NullImage>>, err |-> "none"]

\* composite (479-482): callback(singleLayerWithOpacity(iCanvas, layerData[0]))
SingleOutcome(c) ==
    [pc |-> "done", canvas |-> c, renderPipe |-> << >>,
     ops |-> <<Event("seed", 0), Event("callback", -1)>>, runLog |-> << >>,
     cbLog |-> <<CanvasImage(c)>>, err |-> "none"]

\* Lines 479-482, seed being what singleLayerWithOpacity left.
SingleFrom(seed) ==
    IF seed.threw THEN Uncaught(seed.error) ELSE SingleOutcome(seed.canvas)

compositeSingle(placements) == SingleFrom(singleLayerWithOpacity(placements[1]))

composite(placements, hasCreate) ==
    IF Len(placements) = 0 THEN compositeEmpty
    ELSE IF Len(placements) = 1 THEN compositeSingle(placements)
    ELSE merge(placements, hasCreate)

\* ------------------------------------------------------- render (510-517)
\* A map that stores the values in the order of completion.
MapStoreArrival(images, p, v) ==
    [images EXCEPT ![CHOOSE q \in DOMAIN images :
                        /\ images[q] = NoRaster
                        /\ \A r \in 1..(q - 1) : images[r] # NoRaster] = v]

\* async.map keeps the value of the pipeline of position p at position p.
MapStore(images, p, v) == [images EXCEPT ![p] = v]

PipelineFinished(images, p) == \E q \in DOMAIN images : images[q].src = p - 1
AllFinished(images) == \A q \in DOMAIN images : images[q] # NoRaster

\* The callback render gives async.map: getLayerData, then composite.
MapCallback(images) ==
    \E r \in {composite(getLayerData(layers, images), hasCreateImageData)} :
       /\ layerData' = getLayerData(layers, images)
       /\ pc' = r.pc
       /\ canvas' = r.canvas
       /\ renderPipe' = r.renderPipe
       /\ ops' = r.ops
       /\ runLog' = r.runLog
       /\ cbLog' = r.cbLog
       /\ err' = r.err

Idle ==
    /\ layerImages = << >>
    /\ arrival = << >>
    /\ layerData = << >>
    /\ renderPipe = << >>
    /\ canvas = Blank
    /\ ops = << >>
    /\ runLog = << >>
    /\ cbLog = << >>
    /\ err = "none"

NoFilterWork ==
    /\ filters = << >>
    /\ pixels = << >>
    /\ calls = << >>
    /\ allocs = 0

NoEndpoints == [defined |-> FALSE, x1 |-> 0, y1 |-> 0, x2 |-> 0, y2 |-> 0]

NoGradientWork ==
    /\ gradient = [width |-> 0, height |-> 0, rotation |-> 0]
    /\ endpoints = NoEndpoints

\* A placement of an image of the given size moved by (tx, ty).
PlacementOf(width, height, tx, ty) ==
    Placement([blendmode |-> "hue", tx |-> tx, ty |-> ty, opacity |-> 100,
               rot |-> 0, sx |-> 1, sy |-> 1, flip_h |-> FALSE, flip_v |-> FALSE],
              [src |-> 0, width |-> width, height |-> height], 1)

NoRectWork ==
    /\ rectA = NoRect
    /\ rectB = NoRect
    /\ rectOut = NoRect
    /\ rectLayer = PlacementOf(0, 0, 0, 0)
    /\ layerRect = NoRect

\* No Canvas object with layers, an empty heap, nothing in progress.
NoNestedWork ==
    /\ scene = [c \in {"top", "inner", "mask", "empty"} |-> << >>]
    /\ nest = [dims |-> [c \in {"top", "inner", "mask", "empty"} |->
                            [width |-> 0, height |-> 0]],
               rasters |-> << >>, acts |-> << >>, waiting |-> {}, failed |-> {},
               delivered |-> << >>, errors |-> << >>, abort |-> FALSE,
               renders |-> 0]

Init ==
    /\ layers \in SeqsUpTo(LayerChoices, MaxLayers)
    /\ hasCreateImageData \in BOOLEAN
    /\ pc = "idle"
    /\ Idle
    /\ NoFilterWork
    /\ NoGradientWork
    /\ NoRectWork
    /\ NoNestedWork

\* render(iCanvas, callback): async.map starts the pipeline of every layer;
\* with no layer it calls back at once.
Render ==
    /\ pc = "idle"
    /\ layerImages' = [p \in 1..Len(layers) |-> NoRaster]
    /\ IF Len(layers) = 0
       THEN MapCallback(<< >>)
       ELSE /\ pc' = "loading"
            /\ UNCHANGED <<layerData, renderPipe, canvas, ops, runLog, cbLog, err>>
    /\ UNCHANGED <<layers, hasCreateImageData, arrival>>
    /\ UNCHANGED filterVars
    /\ UNCHANGED gradientVars
    /\ UNCHANGED rectVars
    /\ UNCHANGED nestedVars

\* The pipeline of the layer at position p completes (processLayers, 243-251);
\* the last one to complete runs the callback of async.map.
PipelineDone(p) ==
    /\ pc = "loading"
    /\ ~PipelineFinished(layerImages, p)
    /\ arrival' = Append(arrival, p - 1)
    /\ LET images == MapStore(layerImages, p, PipelineRaster(p))
       IN /\ layerImages' = images
          /\ IF AllFinished(images)
             THEN MapCallback(images)
             ELSE UNCHANGED <<pc, layerData, renderPipe, canvas, ops, runLog,
                              cbLog, err>>
    /\ UNCHANGED <<layers, hasCreateImageData>>
    /\ UNCHANGED filterVars
    /\ UNCHANGED gradientVars
    /\ UNCHANGED rectVars
    /\ UNCHANGED nestedVars

Next ==
    \/ Render
    \/ \E p \in 1..Len(layers) : PipelineDone(p)

Spec == Init /\ [][Next]_vars

\* ------------------------------------------------ processImage (193-219)
FilterNames == {"blur", "luminancebw", "mask"}

SourcePixels == <<"source">>

\* The swap of lines 207-211 without its guard i > 0.
SwapDataAlways(i, st) == [st EXCEPT !.inData = st.outData, !.outData = st.inData]

\* if (i > 0) swap inData and outData (207-211); i is the 1-based position.
\* inData and outData name the two ImageData objects, "A" and "B".
SwapData(i, st) ==
    IF i > 1 THEN [st EXCEPT !.inData = st.outData, !.outData = st.inData]
    ELSE st

\* Line 213: process[filter.name](inData.data, outData.data, ...). A filter
\* writes the whole of its output from its input.
CallFilter(name, sw) ==
    [sw EXCEPT !.mem[sw.outData] = Append(sw.mem[sw.inData], name),
               !.calls = Append(@, [filter  |-> name,
                                    input   |-> sw.inData,
                                    output  |-> sw.outData,
                                    read    |-> sw.mem[sw.inData],
                                    written |-> Append(sw.mem[sw.inData], name)])]

FilterStep(name, i, st) == CallFilter(name, SwapData(i, st))

\* The loop (206-214): after[i] is the state after the filters 1..i.
FilterLoop(chain, st) ==
    LET after[i \in 0..Len(chain)] ==
            IF i = 0 THEN st ELSE FilterStep(chain[i], i, after[i - 1])
    IN after[Len(chain)]

\* Line 216: putImageData(outData).
FilterOutcome(st) ==
    [pixels |-> st.mem[st.outData], calls |-> st.calls, allocs |-> 2]

\* processImage(filters)(canvas, callback): passThrough for an empty chain;
\* otherwise "A" is read from the canvas (getImageData) and "B" comes from
\* createImageData.
processImage(chain, content, hasCreate) ==
    IF Len(chain) = 0
    THEN [pixels |-> content, calls |-> << >>, allocs |-> 0]
    ELSE FilterOutcome(
            FilterLoop(chain,
                [inData |-> "A", outData |-> "B",
                 mem    |-> [A |-> content, B |-> createImageData(hasCreate, content)],
                 calls  |-> << >>]))

InitFilter ==
    /\ layers = << >>
    /\ hasCreateImageData \in BOOLEAN
    /\ pc = "filter"
    /\ Idle
    /\ filters \in SeqsUpTo(FilterNames, MaxFilters)
    /\ pixels = SourcePixels
    /\ calls = << >>
    /\ allocs = 0
    /\ NoGradientWork
    /\ NoRectWork
    /\ NoNestedWork

\* The Filter Stage of one layer runs its chain on the layer's canvas.
ProcessImage ==
    /\ pc = "filter"
    /\ pc' = "filtered"
    /\ \E r \in {processImage(filters, pixels, hasCreateImageData)} :
          /\ pixels' = r.pixels
          /\ calls' = r.calls
          /\ allocs' = r.allocs
    /\ UNCHANGED <<filters, hasCreateImageData>>
    /\ UNCHANGED renderVars
    /\ UNCHANGED gradientVars
    /\ UNCHANGED rectVars
    /\ UNCHANGED nestedVars

NextFilter == ProcessImage

SpecFilter == InitFilter /\ [][NextFilter]_vars

\* ------------------------------------------- generateGradient (127-186)
\* The endpoints createLinearGradient is given, in units of 1/90 pixel.
Endpoints(x1, y1, x2, y2) ==
    [defined |-> TRUE, x1 |-> x1, y1 |-> y1, x2 |-> x2, y2 |-> y2]

\* Lines 150-153: x1 = 0, y1 = height / 2 * (45 - r) / 45, x2 = width,
\* y2 = height - y1.
Sector1(width, height, r) ==
    Endpoints(0, height * (45 - r),
              GradientUnit * width, GradientUnit * height - height * (45 - r))

\* Lines 155-158: x1 = width * (r - 45) / (135 - 45), y1 = 0,
\* x2 = width - x1, y2 = height.
Sector2(width, height, r) ==
    Endpoints(width * (r - 45), 0,
              GradientUnit * width - width * (r - 45), GradientUnit * height)

\* Lines 160-163: x1 = width, y1 = height * (r - 135) / (225 - 135), x2 = 0,
\* y2 = height - y1.
Sector3(width, height, r) ==
    Endpoints(GradientUnit * width, height * (r - 135),
              0, GradientUnit * height - height * (r - 135))

\* Lines 165-168 with x1 = width * (r - 225) / (315 - 225).
Sector4Rising(width, height, r) ==
    Endpoints(width * (r - 225), GradientUnit * height,
              GradientUnit * width - width * (r - 225), 0)

\* Lines 165-168: x1 = width * (1 - (r - 225) / (315 - 225)), y1 = height,
\* x2 = width - x1, y2 = 0.
Sector4(width, height, r) ==
    Endpoints(width * (GradientUnit - (r - 225)), GradientUnit * height,
              GradientUnit * width - width * (GradientUnit - (r - 225)), 0)

\* Lines 170-173: x1 = 0, y1 = height - height / 2 * (r - 315) / (360 - 315),
\* x2 = width, y2 = height - y1.
Sector5(width, height, r) ==
    Endpoints(0, GradientUnit * height - height * (r - 315),
              GradientUnit * width, height * (r - 315))

\* Lines 149-174: the chain of if / else if on the rotation; when no branch
\* is taken x1, y1, x2 and y2 stay undefined.
SectorEndpoints(width, height, r) ==
    IF 0 <= r /\ r < 45 THEN Sector1(width, height, r)
    ELSE IF 45 <= r /\ r < 135 THEN Sector2(width, height, r)
    ELSE IF 135 <= r /\ r < 225 THEN Sector3(width, height, r)
    ELSE IF 225 <= r /\ r < 315 THEN Sector4(width, height, r)
    ELSE IF 315 <= r THEN Sector5(width, height, r)
    ELSE NoEndpoints

\* Lines 146-148: if (rotateDegrees < 0) rotateDegrees += 360, once.
NormalizeRotation(r) == IF r < 0 THEN r + 360 ELSE r

\* The linear branch of generateGradient for a layer of the given size.
generateGradient(width, height, rotateDegrees) ==
    SectorEndpoints(width, height, NormalizeRotation(rotateDegrees))

InitGradient ==
    /\ layers = << >>
    /\ hasCreateImageData = TRUE
    /\ pc = "gradient"
    /\ Idle
    /\ NoFilterWork
    /\ gradient \in [width : {ImgW, CanvasW}, height : {ImgH, CanvasH},
                     rotation : (0 - MaxRotation)..MaxRotation]
    /\ endpoints = NoEndpoints
    /\ NoRectWork
    /\ NoNestedWork

\* The Content Resolver fills a Gradient layer: generateGradient(iCanvas,
\* layer)(_, callback).
GenerateGradient ==
    /\ pc = "gradient"
    /\ pc' = "gradient-done"
    /\ endpoints' = generateGradient(gradient.width, gradient.height,
                                     gradient.rotation)
    /\ UNCHANGED <<gradient, hasCreateImageData>>
    /\ UNCHANGED renderVars
    /\ UNCHANGED filterVars
    /\ UNCHANGED rectVars
    /\ UNCHANGED nestedVars

NextGradient == GenerateGradient

SpecGradient == InitGradient /\ [][NextGradient]_vars

\* ------------------------------- rectIntersect, calcLayerRect (325-347)
\* The rectangles rectIntersect is given: corners in -MaxCoord..MaxCoord,
\* width and height not negative.
RectChoices ==
    [x : (0 - MaxCoord)..MaxCoord, y : (0 - MaxCoord)..MaxCoord,
     width : 0..MaxCoord, height : 0..MaxCoord]

\* The placements calcLayerRect is given: images of even and odd sizes up to
\* one more than the canvas, moved by whole pixels on and off the canvas.
PlacementChoices ==
    {PlacementOf(w, h, tx, ty) :
        w \in 1..(CanvasW + 1), h \in 1..(CanvasH + 1),
        tx \in (0 - CanvasW)..CanvasW, ty \in {0 - CanvasH, 0, 1}}

InitRect ==
    /\ layers = << >>
    /\ hasCreateImageData = TRUE
    /\ Idle
    /\ NoFilterWork
    /\ NoGradientWork
    /\ NoNestedWork
    /\ rectOut = NoRect
    /\ layerRect = NoRect
    /\ \/ /\ pc = "rect"
          /\ rectA \in RectChoices
          /\ rectB \in RectChoices
          /\ rectLayer = PlacementOf(0, 0, 0, 0)
       \/ /\ pc = "layer-rect"
          /\ rectA = NoRect
          /\ rectB = NoRect
          /\ rectLayer \in PlacementChoices

\* One call rectIntersect(r1, r2).
RectIntersect ==
    /\ pc = "rect"
    /\ pc' = "rect-done"
    /\ rectOut' = rectIntersect(rectA, rectB)
    /\ UNCHANGED <<rectA, rectB, rectLayer, layerRect, hasCreateImageData>>
    /\ UNCHANGED renderVars
    /\ UNCHANGED filterVars
    /\ UNCHANGED gradientVars
    /\ UNCHANGED nestedVars

\* One call calcLayerRect(iCanvas, layer), as mergeManualBlend makes it
\* (line 376): the rectangle returned, or the error thrown.
CalcLayerRect ==
    /\ pc = "layer-rect"
    /\ pc' = "layer-rect-done"
    /\ layerRect' = calcLayerRect(rectLayer).rect
    /\ err' = calcLayerRect(rectLayer).error
    /\ UNCHANGED <<rectA, rectB, rectOut, rectLayer, hasCreateImageData>>
    /\ UNCHANGED <<layers, layerImages, arrival, layerData, renderPipe, canvas, ops,
                   runLog, cbLog>>
    /\ UNCHANGED filterVars
    /\ UNCHANGED gradientVars
    /\ UNCHANGED nestedVars

NextRect == RectIntersect \/ CalcLayerRect

SpecRect == InitRect /\ [][NextRect]_vars

\* ------------------------------------- nested renders (48-95, 222-251, 510-529)
\* render with the pipelines of processLayers spelt out: load, processMask
\* and processImage, the renders that loadImageCanvas and processMask start,
\* and the images loadFile waits for. Conventions of this part:
\*  - a Canvas object is named "top", "inner", "mask" or "empty"; scene gives
\*    its layers, nest.dims its width and height (processMask assigns them);
\*  - an html canvas is a position of the heap nest.rasters; position 1 is
\*    the html canvas the caller put into an ExternalRaster layer; Null is
\*    JavaScript's null;
\*  - every layer has blendmode 'source-over', opacity 1 and no transform, so
\*    composite draws natively and cannot throw; the content of a canvas is
\*    a sequence of tokens naming what was drawn and filtered into it;
\*  - a handler is evaluated as a whole by the operators below; st is the
\*    state it has reached, st.abort says that it threw (the rest of the
\*    handler is skipped), d counts the renders on the JavaScript stack.
CanvasIds == {"top", "inner", "mask", "empty"}

Null == 0
Pending == 0 - 1

\* layer.width and layer.height of a layer that has none (undefined).
NoSize == 0 - 1

\* A layer: what isPath(), isFill(), ... say of it (kind "none": none of
\* them holds), its data (an html canvas or a Canvas object), its mask and
\* its filters; it has no width and height of its own.
LayerOf(kind, raster, canvasId, mask, chain) ==
    [kind |-> kind, raster |-> raster, canvas |-> canvasId, mask |-> mask,
     filters |-> chain, width |-> NoSize, height |-> NoSize]

\* The layer with a width and a height of its own.
Sized(layer, width, height) == [layer EXCEPT !.width = width, !.height = height]

\* The html canvas of the ExternalRaster layer, and the image a FileReference
\* layer names or a layer of kind image holds.
CallerRaster == [width |-> ImgW, height |-> ImgH, content |-> <<"raster">>]
SourceImage == [width |-> ImgW, height |-> ImgH, content |-> <<"file">>]

\* The layers of the top Canvas: each kind of content that load dispatches
\* on, without a mask (the mask Canvas has no layers) or with the shared
\* mask Canvas; without and with a filter.
TopLayerChoices ==
    {LayerOf(k[1], k[2], k[3], m, f) :
        k \in {<<"path", Null, "empty">>, <<"htmlCanvas", 1, "empty">>,
               <<"fill", Null, "empty">>, <<"imageCanvas", Null, "inner">>,
               <<"imageCanvas", Null, "empty">>},
        m \in {"empty", "mask"},
        f \in {<< >>, <<"blur">>}}
    \cup {LayerOf(k, Null, "empty", m, << >>) :
            k \in {"gradient", "image", "none"}, m \in {"empty", "mask"}}
    \cup {Sized(LayerOf(k, Null, "empty", "mask", << >>), ImgW, ImgH) :
            k \in {"fill", "gradient"}}

\* A top Canvas that reaches itself: its only layer nests it, or has it as
\* mask.
CyclicChoices ==
    {<<LayerOf("imageCanvas", Null, "top", "empty", << >>)>>,
     <<LayerOf("fill", Null, "empty", "top", << >>)>>,
     <<LayerOf("path", Null, "empty", "top", << >>)>>}

InnerChoices ==
    {<<LayerOf("fill", Null, "empty", "empty", << >>)>>,
     <<LayerOf("fill", Null, "empty", "mask", << >>)>>}

MaskChoices ==
    {<<LayerOf("fill", Null, "empty", "empty", << >>)>>,
     <<LayerOf("path", Null, "empty", "empty", << >>)>>}

\* A throw: the error is raised and the handler is left.
Throw(st, e) == [st EXCEPT !.errors = Append(@, e), !.abort = TRUE]

\* document.createElement('canvas') sized and drawn into: a new position of
\* the heap.
NewCanvas(st, width, height, content) ==
    [st EXCEPT !.rasters = Append(@, [width |-> width, height |-> height,
                                      content |-> content])]

LayerAt(st, a, i) == scene[st.acts[a].canvas][i]

TopCont == [kind |-> "top", act |-> 0, layer |-> 0, raster |-> Null]

RECURSIVE render(_, _, _, _, _)
RECURSIVE processMask(_, _, _, _, _)
RECURSIVE FilterStage(_, _, _, _, _)

\* The callback the caller gave the top render: it is handed the canvas, or
\* null.
Deliver(st, r) ==
    [st EXCEPT !.delivered =
        Append(@, IF r = Null THEN NullImage
                  ELSE CanvasImage(st.rasters[r].content))]

\* renderBW's callback (521-527): the filter 'luminancebw' on the canvas c
\* that the render of the mask delivered.
BlackAndWhite(st, c) ==
    [st EXCEPT !.rasters[c].content =
        processImage(<<"luminancebw">>, @, hasCreateImageData).pixels]

\* processMask's callback (232-236): the filter 'mask', with the pixels of c
\* as its option data, on the canvas r of the layer.
ApplyMask(st, r, c) ==
    [st EXCEPT !.rasters[r].content =
        processImage(<<"mask">>, @, hasCreateImageData).pixels
            \o <<"(">> \o st.rasters[c].content \o <<")">>]

\* What a render hands on when it is over (its callback): the top render to
\* the caller, the render of a NestedCanvas layer to loadImageCanvas's
\* callback (91-93) and so to the mask stage of that layer, the render of a
\* mask through renderBW to processMask's callback and so to the filter stage.
RenderCallback(st, a, r, d) ==
    CASE st.acts[a].cont.kind = "top" -> Deliver(st, r)
      [] st.acts[a].cont.kind = "nested" ->
            processMask(st, st.acts[a].cont.act, st.acts[a].cont.layer, r, d)
      [] st.acts[a].cont.kind = "mask" ->
            FilterStage(ApplyMask(BlackAndWhite(st, r), st.acts[a].cont.raster, r),
                        st.acts[a].cont.act, st.acts[a].cont.layer,
                        st.acts[a].cont.raster, d)

\* The contents of the canvases of the layers, in layer order.
ContentsOf(st, results) ==
    LET join[i \in 0..Len(results)] ==
            IF i = 0 THEN << >>
            ELSE join[i - 1] \o st.rasters[results[i]].content \o <<",">>
    IN join[Len(results)]

\* composite (474-485) through singleLayerWithOpacity (399-403): no canvas
\* for no layer, else a new canvas of the size the Canvas object has now,
\* with the layers drawn in order.
compositeNested(st, a, d) ==
    IF Len(st.acts[a].results) = 0
    THEN RenderCallback(st, a, Null, d)
    ELSE RenderCallback(
            NewCanvas(st, st.dims[st.acts[a].canvas].width,
                      st.dims[st.acts[a].canvas].height,
                      <<"composite(">> \o ContentsOf(st, st.acts[a].results)
                          \o <<")">>),
            a, Len(st.rasters) + 1, d)

\* The callback render gives async.map (512-516): getLayerData reads
\* layerImg.width of every result (494), a TypeError for null; then composite.
MapDone(st, a, d) ==
    IF \E i \in DOMAIN st.acts[a].results : st.acts[a].results[i] = Null
    THEN Throw(st, "TypeError")
    ELSE compositeNested(st, a, d)

\* async.map: the callback runs once every pipeline has called back.
MapResult(st, a, d) ==
    IF \A i \in DOMAIN st.acts[a].results : st.acts[a].results[i] # Pending
    THEN MapDone(st, a, d)
    ELSE st

\* The callback of the pipeline of layer i: async.map keeps r at position i.
PipelineEnd(st, a, i, r, d) ==
    MapResult([st EXCEPT !.acts[a].results[i] = r], a, d)

\* processImage(layer.filters) as the last stage of the pipeline (246):
\* passThrough for no filter, else the chain is run on the canvas itself
\* (canvas.getContext, 200; putImageData, 216).
FilterStage(st, a, i, r, d) ==
    IF LayerAt(st, a, i).filters = << >> THEN PipelineEnd(st, a, i, r, d)
    ELSE IF r = Null THEN Throw(st, "TypeError")
    ELSE PipelineEnd(
            [st EXCEPT !.rasters[r].content =
                processImage(LayerAt(st, a, i).filters, @,
                             hasCreateImageData).pixels],
            a, i, r, d)

\* processMask(layer.mask) (222-239): passThrough for a mask without layers;
\* else the mask Canvas takes the size of the canvas (canvas.width, 227, a
\* TypeError for null) and renderBW renders it.
processMask(st, a, i, r, d) ==
    IF Len(scene[LayerAt(st, a, i).mask]) = 0 THEN FilterStage(st, a, i, r, d)
    ELSE IF r = Null THEN Throw(st, "TypeError")
    ELSE render([st EXCEPT !.dims[LayerAt(st, a, i).mask] =
                    [width |-> st.rasters[r].width,
                     height |-> st.rasters[r].height]],
                LayerAt(st, a, i).mask,
                [kind |-> "mask", act |-> a, layer |-> i, raster |-> r],
                st.acts[a].level + 1, d + 1)

\* Lines 112-113 and 130-131: the size of the layer, or for a layer without
\* one the size of the Canvas object.
OwnOr(size, canvasSize) == IF size # NoSize THEN size ELSE canvasSize

\* generateColor (111-124) and generateGradient (127-186) as the first stage
\* of a pipeline: a new canvas of that size, filled as a whole by fillRect
\* (the fill style, a colour or a gradient, is not part of the content).
FillCanvas(st, a, i) ==
    NewCanvas(st,
              OwnOr(LayerAt(st, a, i).width, st.dims[st.acts[a].canvas].width),
              OwnOr(LayerAt(st, a, i).height, st.dims[st.acts[a].canvas].height),
              <<"fill">>)

\* load (48-62) and the first stage of the pipeline of layer i: loadFile
\* waits for the image, generateColor and generateGradient fill a new
\* canvas, loadHtmlCanvas passes the caller's canvas, loadImage (98-108)
\* draws the stored image on a new canvas of its size, loadImageCanvas
\* renders the nested Canvas. For a layer of no kind load returns undefined,
\* and the pipeline async.compose made of it (245-249) throws a TypeError
\* when processLayers calls it.
load(st, a, i, d) ==
    CASE LayerAt(st, a, i).kind = "path" ->
            [st EXCEPT !.waiting = @ \cup {<<a, i>>}]
      [] LayerAt(st, a, i).kind \in {"fill", "gradient"} ->
            processMask(FillCanvas(st, a, i), a, i, Len(st.rasters) + 1, d)
      [] LayerAt(st, a, i).kind = "htmlCanvas" ->
            processMask(st, a, i, LayerAt(st, a, i).raster, d)
      [] LayerAt(st, a, i).kind = "image" ->
            processMask(NewCanvas(st, SourceImage.width, SourceImage.height,
                                  SourceImage.content),
                        a, i, Len(st.rasters) + 1, d)
      [] LayerAt(st, a, i).kind = "imageCanvas" ->
            render(st, LayerAt(st, a, i).canvas,
                   [kind |-> "nested", act |-> a, layer |-> i, raster |-> Null],
                   st.acts[a].level + 1, d + 1)
      [] OTHER -> Throw(st, "TypeError")

\* processLayers(iCanvas)(layer, callback) (243-251).
processLayers(st, a, i, d) == load(st, a, i, d)

\* async.map calls the iterator for the layers in order, from layer i on; a
\* throw leaves the loop.
RECURSIVE MapEach(_, _, _, _)
MapEach(st, a, i, d) ==
    IF st.abort \/ i > Len(scene[st.acts[a].canvas]) THEN st
    ELSE MapEach(processLayers(st, a, i, d), a, i + 1, d)

\* async.map over no layer calls back at once.
StartMap(st, a, d) ==
    IF Len(scene[st.acts[a].canvas]) = 0 THEN MapDone(st, a, d)
    ELSE MapEach(st, a, 1, d)

\* render(iCanvas, callback) (510-517) for the Canvas object cid; cont says
\* what its callback goes on with. More than StackLimit renders on the
\* stack overflow it (RangeError).
render(st, cid, cont, level, d) ==
    IF d > StackLimit THEN Throw(st, "RangeError")
    ELSE StartMap([st EXCEPT !.acts =
                      Append(@, [canvas  |-> cid,
                                 results |-> [i \in 1..Len(scene[cid]) |-> Pending],
                                 cont    |-> cont,
                                 level   |-> level])],
                  Len(st.acts) + 1, d)

InitNested ==
    /\ layers = << >>
    /\ hasCreateImageData = TRUE
    /\ pc = "nested"
    /\ Idle
    /\ NoFilterWork
    /\ NoGradientWork
    /\ NoRectWork
    /\ scene \in [top : SeqsUpTo(TopLayerChoices, MaxTopLayers) \cup CyclicChoices,
                  inner : InnerChoices, mask : MaskChoices, empty : {<< >>}]
    /\ nest = [dims |-> [c \in CanvasIds |-> [width |-> CanvasW, height |-> CanvasH]],
               rasters |-> <<CallerRaster>>, acts |-> << >>, waiting |-> {},
               failed |-> {}, delivered |-> << >>, errors |-> << >>,
               abort |-> FALSE, renders |-> 0]

NestedFrame ==
    /\ UNCHANGED <<scene, hasCreateImageData, pc>>
    /\ UNCHANGED renderVars
    /\ UNCHANGED filterVars
    /\ UNCHANGED gradientVars
    /\ UNCHANGED rectVars

\* The caller renders the top Canvas, and again once it has its image. The
\* renders and canvases of the render before are garbage by then.
RenderTop ==
    /\ pc = "nested"
    /\ nest.renders < MaxRenders
    /\ Len(nest.delivered) = nest.renders
    /\ nest' = render([nest EXCEPT !.renders = @ + 1, !.abort = FALSE,
                                   !.acts = << >>, !.rasters = <<@[1]>>],
                      "top", TopCont, 1, 1)
    /\ NestedFrame

\* source.onload (71-76) of the image of layer i of the render a: a new
\* canvas of the size of the image goes on to the mask stage. A Canvas that
\* reaches itself through a layer that loads an image starts a deeper
\* render with every load, without end; MaxLevel cuts that off.
ImageLoaded(a, i) ==
    /\ <<a, i>> \in nest.waiting
    /\ nest.acts[a].level <= MaxLevel
    /\ nest' = processMask(
                  NewCanvas([nest EXCEPT !.waiting = @ \ {<<a, i>>},
                                         !.abort = FALSE],
                            SourceImage.width, SourceImage.height,
                            SourceImage.content),
                  a, i, Len(nest.rasters) + 1, 0)
    /\ NestedFrame

\* The image fails to load: loadFile sets no onerror (65-79), so no code
\* runs and the pipeline never calls back.
LoadFails(a, i) ==
    /\ <<a, i>> \in nest.waiting
    /\ nest' = [nest EXCEPT !.waiting = @ \ {<<a, i>>},
                            !.failed = @ \cup {<<a, i>>}]
    /\ NestedFrame

LoadEvent ==
    \E a \in DOMAIN nest.acts : \E i \in 1..MaxTopLayers :
        ImageLoaded(a, i) \/ LoadFails(a, i)

NextNested == RenderTop \/ LoadEvent

SpecNested == InitNested /\ [][NextNested]_vars

\* ================================================================ claims
Finished == pc \in {"done", "failed"}

\* The layers named by the compositing events, the callback left out.
RECURSIVE VisitedLayers(_)
VisitedLayers(events) ==
    IF events = << >> THEN << >>
    ELSE IF Head(events).ev = "callback" THEN VisitedLayers(Tail(events))
    ELSE <<Head(events).layer>> \o VisitedLayers(Tail(events))

StrictlyIncreasing(q) == \A i \in 1..(Len(q) - 1) : q[i] < q[i + 1]

\* The runs of the pipe in the order async.compose executes them: the array
\* read from its end, the seed function left out.
ExecutedRuns(pipe) == [k \in 1..(Len(pipe) - 1) |-> pipe[Len(pipe) - k]]

RECURSIVE Flatten(_)
Flatten(lists) ==
    IF lists = << >> THEN << >> ELSE Head(lists).list \o Flatten(Tail(lists))

Capability(placement) == nativeBlendModes(placement.blendmode)

\* Every blendmode after the base has an entry, true or false, in the table.
AllClassified(placements) ==
    \A p \in 2..Len(placements) : Capability(placements[p]) # Undefined

\* C1: in merge (two or more placements) placement 0 is drawn first as the
\* seed, the placements are visited in strictly increasing order whatever the
\* runs are, every run receives the buffer the run before it left (the first
\* one the seed), the callback comes after the last run and receives what it
\* left, and with every blendmode classified native or manual the merge
\* completes and has applied every placement 0..n-1.
C1_OrderedCompositing ==
    (Finished /\ Len(layerData) >= 2) =>
        /\ ops # << >> /\ ops[1] = Event("seed", 0)
        /\ StrictlyIncreasing(VisitedLayers(ops))
        /\ \A k \in DOMAIN runLog :
              runLog[k].input = IF k = 1
                                THEN singleLayerWithOpacity(layerData[1]).canvas
                                ELSE runLog[k - 1].output
        /\ \A i \in DOMAIN ops :
              ops[i].ev = "callback" =>
                  /\ i = Len(ops)
                  /\ Len(runLog) = Len(renderPipe) - 1
                  /\ cbLog = <<CanvasImage(IF runLog = << >>
                                           THEN singleLayerWithOpacity(layerData[1]).canvas
                                           ELSE runLog[Len(runLog)].output)>>
        /\ cbLog # << >> => ops[Len(ops)].ev = "callback"
        /\ AllClassified(layerData) =>
              /\ pc = "done"
              /\ VisitedLayers(ops) = [i \in 1..Len(layerData) |-> i - 1]

\* C2: nothing of compositing exists before the pipelines of all layers have
\* completed, and the placement of index i holds the raster the pipeline of
\* layer i produced, in whatever order the pipelines completed.
C2_AllPipelinesThenOrder ==
    /\ (pc = "loading" /\ ~AllFinished(layerImages)) =>
          /\ layerData = << >>
          /\ ops = << >>
          /\ cbLog = << >>
    /\ (layerData # << >> \/ ops # << >> \/ cbLog # << >>) =>
          /\ Len(arrival) = Len(layers)
          /\ Len(layerData) = Len(layers)
          /\ \A p \in 1..Len(layers) :
                /\ layerData[p].img = PipelineRaster(p)
                /\ layerData[p].blendmode = layers[p].blendmode

\* Three pipelines that completed in the order 2, 0, 1.
C2_Witness ==
    /\ Finished
    /\ arrival = <<2, 0, 1>>
    /\ Len(layerData) = 3
    /\ layerData[1].img.src = 0

\* C3: a finished render has invoked the callback exactly once, with the
\* composited buffer, or with null for an empty layer list.
C3_CallbackExactlyOnce ==
    Finished =>
        /\ Len(cbLog) = 1
        /\ cbLog[1] = IF Len(layers) = 0 THEN NullImage ELSE CanvasImage(canvas)

\* C4: a render in which a stage failed has delivered no image and has
\* delivered the failure exactly once to the callback.
C4_FailureDelivered ==
    pc = "failed" =>
        /\ \A i \in DOMAIN cbLog : cbLog[i].kind # "canvas"
        /\ Len(cbLog) = 1
        /\ cbLog[1].kind = "error"

\* The bounds of a placement that is neither rotated nor scaled: the image
\* rectangle centred on the canvas and moved by (tx, ty). Half pixels.
LayerBounds(layer) ==
    [x      |-> (iCanvas.width - layer.img.width) + 2 * layer.tx,
     y      |-> (iCanvas.height - layer.img.height) + 2 * layer.ty,
     width  |-> 2 * layer.img.width,
     height |-> 2 * layer.img.height]

\* The part of the bounds on the canvas has no area.
ZeroArea(placement) ==
    \/ rectIntersect(LayerBounds(placement), CanvasRect).width = 0
    \/ rectIntersect(LayerBounds(placement), CanvasRect).height = 0

\* Some placement after the base has a blendmode that is not native-capable
\* and has no function in the manual blend registry, and lies on the canvas
\* (a placement of zero area is passed over before any lookup).
HasUnregisteredManual(placements) ==
    \E p \in 2..Len(placements) :
        /\ Capability(placements[p]) # "true"
        /\ ~BlendDefined(placements[p].blendmode)
        /\ ~ZeroArea(placements[p])

\* C5: a render of two or more layers with a non-base layer whose blendmode
\* is not native-capable and has no function in the manual blend registry
\* ends with the error NoSuchBlendMode and nothing delivered to the callback.
C5_UnregisteredBlendModeFails ==
    (Finished /\ Len(layerData) >= 2 /\ HasUnregisteredManual(layerData)) =>
        /\ pc = "failed"
        /\ err = "NoSuchBlendMode"
        /\ cbLog = << >>

\* The number of maximal groups of equal capability among placements 1..n-1.
NumGroups(placements) ==
    Cardinality({p \in 2..Len(placements) :
                    p = 2 \/ Capability(placements[p]) # Capability(placements[p - 1])})

\* C6: with every blendmode classified native or manual, merge builds its
\* pipe, and the runs, in execution order, concatenate to placements 1..n-1;
\* each run is not empty and of one capability, neighbouring runs differ in
\* capability,
\* there are as many runs as maximal groups, and a run goes to
\* mergeNativeBlend exactly if its capability is native.
C6_RunsAreMaximalGroups ==
    (Finished /\ Len(layerData) >= 2 /\ AllClassified(layerData)) =>
        LET runs == ExecutedRuns(renderPipe)
        IN /\ renderPipe # << >>
           /\ renderPipe[Len(renderPipe)] = SeedStep
           /\ Flatten(runs) = Tail(layerData)
           /\ Len(runs) = NumGroups(layerData)
           /\ \A k \in DOMAIN runs :
                 /\ runs[k].list # << >>
                 /\ \A q \in DOMAIN runs[k].list :
                       Capability(runs[k].list[q]) = Capability(runs[k].list[1])
                 /\ runs[k].fn = "mergeNativeBlend"
                       <=> Capability(runs[k].list[1]) = "true"
                 /\ k > 1 =>
                       Capability(runs[k].list[1]) # Capability(runs[k - 1].list[1])

Without(list, q) == SubSeq(list, 1, q - 1) \o SubSeq(list, q + 1, Len(list))

\* C7: in a manual run a placement of zero area is a no-op: the run ends as
\* the run without that placement ends and leaves the buffer that one leaves;
\* a run of one placement of zero area completes and leaves its input.
C7_ZeroAreaIsNoOp ==
    \A k \in DOMAIN runLog :
        runLog[k].fn = "mergeManualBlend" =>
            \A q \in DOMAIN runLog[k].list :
                ZeroArea(runLog[k].list[q]) =>
                    IF Len(runLog[k].list) = 1
                    THEN /\ ~runLog[k].threw
                         /\ runLog[k].output = runLog[k].input
                    ELSE /\ runLog[k].threw =
                               mergeManualBlend(Without(runLog[k].list, q),
                                   runLog[k].input, hasCreateImageData).threw
                         /\ runLog[k].output =
                               mergeManualBlend(Without(runLog[k].list, q),
                                   runLog[k].input, hasCreateImageData).canvas

\* C8: processImage calls the filters in chain order, the first on the
\* pixels of the canvas and each later one on the buffer the one before it
\* wrote, never with one buffer as input and output, and writes back what
\* the last filter wrote; an empty chain leaves the canvas as it is and
\* obtains no buffer.
C8_FilterChain ==
    pc = "filtered" =>
        IF Len(filters) = 0
        THEN pixels = SourcePixels /\ calls = << >> /\ allocs = 0
        ELSE /\ Len(calls) = Len(filters)
             /\ calls[1].read = SourcePixels
             /\ \A i \in DOMAIN calls :
                   /\ calls[i].filter = filters[i]
                   /\ calls[i].input # calls[i].output
                   /\ i > 1 => /\ calls[i].input = calls[i - 1].output
                               /\ calls[i].read = calls[i - 1].written
             /\ pixels = calls[Len(calls)].written

\* A chain of three filters has run.
C8_Witness ==
    /\ pc = "filtered"
    /\ Len(filters) = 3
    /\ Len(calls) = 3
    /\ hasCreateImageData

\* C9: render of a Canvas without layers hands null to the callback once,
\* raises nothing, and draws and blends nothing.
C9_EmptyCanvas ==
    (Len(layers) = 0 /\ pc \notin {"idle", "filter", "filtered"}) =>
        /\ pc = "done"
        /\ cbLog = <<NullImage>>
        /\ err = "none"
        /\ VisitedLayers(ops) = << >>
        /\ runLog = << >>
        /\ canvas = Blank

C9_Witness ==
    /\ Len(layers) = 0
    /\ pc = "done"
    /\ Len(cbLog) = 1

\* C10: render of a Canvas with one layer hands to the callback the canvas
\* on which that layer was drawn once, with its transform and opacity and no
\* composite operation; no run exists, whatever the blendmode.
C10_SingleLayer ==
    (Len(layers) = 1 /\ Finished) =>
        /\ pc = "done"
        /\ err = "none"
        /\ runLog = << >>
        /\ renderPipe = << >>
        /\ VisitedLayers(ops) = <<0>>
        /\ cbLog = <<CanvasImage(
                       <<[via |-> "singleLayerWithOpacity", layer |-> 0, img |-> 0,
                          opacity |-> layers[1].opacity,
                          tx |-> layers[1].tx, ty |-> layers[1].ty,
                          rot |-> layers[1].rot,
                          gco |-> "source-over", rect |-> NoRect]>>)>>

\* C11: generateGradient gives rotation r and rotation r + 360 the same
\* endpoints, for every integer r of -MaxRotation..MaxRotation (negative
\* values, also below -360, and values of 360 and above).
C11_RotationPeriodic ==
    pc = "gradient-done" =>
        endpoints = generateGradient(gradient.width, gradient.height,
                                     gradient.rotation + 360)

\* The point (x, y), in units of 1/90 pixel, lies on the boundary of the
\* rectangle [0, width] x [0, height].
OnBoundary(x, y, width, height) ==
    \/ /\ x \in {0, GradientUnit * width}
       /\ 0 <= y /\ y <= GradientUnit * height
    \/ /\ y \in {0, GradientUnit * height}
       /\ 0 <= x /\ x <= GradientUnit * width

\* The endpoints (ax, ay)-(bx, by) given in whole and half pixels.
ExactEndpoints(ax2, ay2, bx2, by2) ==
    Endpoints((GradientUnit \div 2) * ax2, (GradientUnit \div 2) * ay2,
              (GradientUnit \div 2) * bx2, (GradientUnit \div 2) * by2)

\* C13: for a rotation in [0, 360) both endpoints lie on the boundary of
\* the rectangle and are point-symmetric about its centre; at 0, 45, 135,
\* 225 and 315 degrees they are (0,h/2)-(w,h/2), (0,0)-(w,h), (w,0)-(0,h),
\* (w,h)-(0,0) and (0,h)-(w,0); and the formulas of two adjacent sectors
\* agree at the rotation where they meet (360 meeting 0).
C13_EndpointsOnBoundary ==
    (pc = "gradient-done" /\ 0 <= gradient.rotation /\ gradient.rotation < 360) =>
        /\ endpoints.defined
        /\ OnBoundary(endpoints.x1, endpoints.y1, gradient.width, gradient.height)
        /\ OnBoundary(endpoints.x2, endpoints.y2, gradient.width, gradient.height)
        /\ endpoints.x1 + endpoints.x2 = GradientUnit * gradient.width
        /\ endpoints.y1 + endpoints.y2 = GradientUnit * gradient.height
        /\ gradient.rotation = 0 =>
              endpoints = ExactEndpoints(0, gradient.height,
                                         2 * gradient.width, gradient.height)
        /\ gradient.rotation = 45 =>
              endpoints = ExactEndpoints(0, 0, 2 * gradient.width, 2 * gradient.height)
        /\ gradient.rotation = 135 =>
              endpoints = ExactEndpoints(2 * gradient.width, 0, 0, 2 * gradient.height)
        /\ gradient.rotation = 225 =>
              endpoints = ExactEndpoints(2 * gradient.width, 2 * gradient.height, 0, 0)
        /\ gradient.rotation = 315 =>
              endpoints = ExactEndpoints(0, 2 * gradient.height, 2 * gradient.width, 0)
        /\ Sector1(gradient.width, gradient.height, 45)
              = Sector2(gradient.width, gradient.height, 45)
        /\ Sector2(gradient.width, gradient.height, 135)
              = Sector3(gradient.width, gradient.height, 135)
        /\ Sector3(gradient.width, gradient.height, 225)
              = Sector4(gradient.width, gradient.height, 225)
        /\ Sector4(gradient.width, gradient.height, 315)
              = Sector5(gradient.width, gradient.height, 315)
        /\ Sector5(gradient.width, gradient.height, 360)
              = Sector1(gradient.width, gradient.height, 0)

\* A gradient of the size of the canvas at 225 degrees runs from (w,h) to
\* (0,0).
C13_Witness ==
    /\ pc = "gradient-done"
    /\ gradient.rotation = 225
    /\ gradient.width = CanvasW
    /\ endpoints.x1 = GradientUnit * CanvasW
    /\ endpoints.y1 = GradientUnit * CanvasH
    /\ endpoints.x2 = 0

\* C12: for rectangles A and B of non-negative width and height,
\* rectIntersect(A, B) is the rectangle rectIntersect(B, A), its width and
\* height are not negative, and its width (height) is zero when A and B do
\* not overlap horizontally (vertically).
C12_IntersectCommutes ==
    pc = "rect-done" =>
        /\ rectOut = rectIntersect(rectB, rectA)
        /\ rectOut.width >= 0
        /\ rectOut.height >= 0
        /\ (rectA.x + rectA.width <= rectB.x \/ rectB.x + rectB.width <= rectA.x)
              => rectOut.width = 0
        /\ (rectA.y + rectA.height <= rectB.y \/ rectB.y + rectB.height <= rectA.y)
              => rectOut.height = 0

\* Two rectangles apart in x and overlapping in y: no width, some height.
C12_Witness ==
    /\ pc = "rect-done"
    /\ rectA.x + rectA.width < rectB.x
    /\ rectA.width > 0 /\ rectB.width > 0
    /\ rectOut.width = 0
    /\ rectOut.height > 0

\* The bounds of the placement overlap the canvas.
OverlapsCanvas(layer) == ~ZeroArea(layer)

\* C14: for a placement whose transformed bounds overlap the canvas,
\* calcLayerRect returns a rectangle, and it lies inside the canvas: x >= 0,
\* y >= 0, x + width <= canvas width and y + height <= canvas height.
C14_LayerRectInsideCanvas ==
    (pc = "layer-rect-done" /\ OverlapsCanvas(rectLayer)) =>
        /\ err = "none"
        /\ layerRect.x >= 0
        /\ layerRect.y >= 0
        /\ layerRect.x + layerRect.width <= iCanvas.width
        /\ layerRect.y + layerRect.height <= iCanvas.height

\* The places (run, position in the run) of the pipe that hold the placement
\* of the given index.
PlacesInPipe(pipe, index) ==
    {kq \in UNION {{<<k, q>> : q \in DOMAIN pipe[k].list} : k \in DOMAIN pipe} :
        pipe[kq[1]].list[kq[2]].index = index}

\* C17: merge puts every placement after the base in exactly one run of the
\* pipe, whatever the blendmodes are, also one without an entry in the
\* native-capability table.
C17_EveryPlacementInOneRun ==
    (Finished /\ Len(layerData) >= 2) =>
        \A p \in 2..Len(layerData) :
            Cardinality(PlacesInPipe(renderPipe, p - 1)) = 1

\* C15: when the image of a FileReference layer has failed to load, the
\* render ends with its callback invoked with a failure: once no image is
\* being loaded any more, so that no handler is left to run, the callback
\* has been handed the failure.
C15_FailedLoadTerminates ==
    (nest.failed # {} /\ nest.waiting = {}) =>
        \E k \in DOMAIN nest.delivered : nest.delivered[k].kind = "error"

\* C16: a render that nests the renders of masks and NestedCanvas layers
\* deeper than RecursionLimit has failed with RecursionLimitExceeded.
C16_RecursionLimited ==
    (\E a \in DOMAIN nest.acts : nest.acts[a].level > RecursionLimit) =>
        /\ nest.errors # << >>
        /\ nest.errors[1] = "RecursionLimitExceeded"
        /\ nest.delivered = << >>

\* The layers of the scene that hold the caller's html canvas and have a
\* filter or a mask with layers.
ProcessedExternal ==
    {i \in DOMAIN scene.top :
        /\ scene.top[i].kind = "htmlCanvas"
        /\ scene.top[i].filters # << >> \/ Len(scene[scene.top[i].mask]) > 0}

\* C18: render leaves the html canvas of an ExternalRaster layer that has a
\* filter or a mask as the caller supplied it, and two renders of the same
\* Canvas deliver the same image.
C18_ExternalRasterUnchanged ==
    (pc = "nested" /\ ProcessedExternal # {}) =>
        /\ nest.rasters[1] = CallerRaster
        /\ Len(nest.delivered) = 2 => nest.delivered[1] = nest.delivered[2]

\* The render a is the render of a mask that has not composited yet: it
\* waits for images, none of which has failed.
MaskRenderInProgress(a) ==
    /\ nest.acts[a].cont.kind = "mask"
    /\ \E i \in DOMAIN nest.acts[a].results : nest.acts[a].results[i] = Pending
    /\ \A i \in DOMAIN nest.acts[a].results :
          nest.acts[a].results[i] = Pending => <<a, i>> \in nest.waiting

\* C19: while the render of a layer's mask is in progress the mask Canvas
\* has the width and height of that layer's canvas.
C19_MaskKeepsLayerSize ==
    \A a \in DOMAIN nest.acts :
        MaskRenderInProgress(a) =>
            /\ nest.dims[nest.acts[a].canvas].width
                  = nest.rasters[nest.acts[a].cont.raster].width
            /\ nest.dims[nest.acts[a].canvas].height
                  = nest.rasters[nest.acts[a].cont.raster].height

\* The top Canvas has a NestedCanvas layer whose Canvas has no layers, and
\* no layer that waits for an image.
HasEmptyNested ==
    /\ \E i \in DOMAIN scene.top :
          scene.top[i].kind = "imageCanvas" /\ scene.top[i].canvas = "empty"
    /\ \A i \in DOMAIN scene.top :
          /\ scene.top[i].kind # "path"
          /\ scene.top[i].mask = "empty"

\* C20: a render of a Canvas with a NestedCanvas layer without layers raises
\* no error and invokes the callback of the outer render.
C20_EmptyNestedCanvas ==
    (pc = "nested" /\ HasEmptyNested /\ nest.renders > 0) =>
        /\ nest.errors = << >>
        /\ Len(nest.delivered) = nest.renders

====
